---- MODULE Spec2Model ----
(***************************************************************************)
(* Model of blogController (create / update / delete) together with the    *)
(* two stores it drives: the MongoDB collections (blogs, comments) and the *)
(* Cloudinary asset store.  Every await of a handler is one step: the      *)
(* effect of the awaited call on the store plus the handler's code up to   *)
(* its next await.  The requests of Procs run concurrently and interleave  *)
(* at their awaits.                                                        *)
(***************************************************************************)
EXTENDS Naturals, Sequences, FiniteSets, TLC

\* ---- bounds ------------------------------------------------------------
Procs == {1, 2}          \* concurrently served requests
MaxBlogs == 2            \* blog ids that can ever be allotted
MaxAssets == 4           \* assets that can ever be uploaded
MaxComments == 2         \* comments of each post present at start
MaxNameParts == 2        \* "."-separated parts of a public id's last segment
MaxFolders == 1          \* folders in front of a public id

\* ---- request inputs ----------------------------------------------------
BlogIds == 1..MaxBlogs
BadId == 0               \* an id that does not match mongodbIdPattern
\* values a request can carry; the posts present at start carry other ones
\* (SeedBlog), so that every field a request writes is seen to change
Titles == {"t1", "t2"}
Contents == {"c1"}
Authors == {"u1"}
NoPhoto == ""            \* req.body.photo undefined
Photos == {"p1"}
NoPath == <<>>           \* a missing photoPath

VARIABLES
    blogs,          \* Blog collection: _id -> document
    comments,       \* Comment collection: set of documents
    assets,         \* Cloudinary: public ids of the stored assets
    nextId,         \* next _id that new Blog() allots
    nextAsset,      \* next public id Cloudinary allots
    pc,             \* per request: the await it is suspended at
    req,            \* per request: operation and req.body / req.params
    blog,           \* per request: photoPath of the document findOne returned
    newPhotoPath,   \* per request: update's newPhotoPath / create's response.url
    outcome,        \* per request: what was sent to the caller
    resp,           \* per request: the blog DTO create responded with
    calls,          \* per request: calls issued to the stores, in order
    deletedCount,   \* per request: deletedCount that deleteMany returned
    during,         \* per request: the requests in service when it arrived
    stored,         \* derivation alone: the asset Cloudinary stored, or none
    updateId,       \* derivation alone: <<public id>> update derived
    deleteId        \* derivation alone: <<public id>> delete derived

vars == <<blogs, comments, assets, nextId, nextAsset, pc, req, blog,
          newPhotoPath, outcome, resp, calls, deletedCount, during,
          stored, updateId, deleteId>>

requestVars == <<blogs, comments, assets, nextId, nextAsset, pc, req, blog,
                 newPhotoPath, outcome, resp, calls, deletedCount, during>>
codecVars == <<stored, updateId, deleteId>>

\* ---- Cloudinary urls and the public id derivation ----------------------
\* A url is the sequence of its "/"-separated segments, a segment the
\* sequence of its "."-separated parts.
AssetName(n) == "a" \o ToString(n)

UploadUrl(name) ==
    << <<"http:">>, <<"res", "cloudinary", "com">>, <<"upload">>, <<"v1">>,
       <<name, "jpg">> >>

\* the url of an asset stored in folders `folder` under the name `name`
\* (its "."-separated parts) in format `format`
AccessUrl(folder, name, format) ==
    << <<"http:">>, <<"res", "cloudinary", "com">>, <<"upload">>, <<"v1">> >>
        \o folder \o << Append(name, format) >>

Pop(s) == SubSeq(s, 1, Len(s) - 1)

\* update, lines 170-182
UpdatePublicId(photoUrl) ==
    LET urlParts == photoUrl
        publicIdWithExtension == urlParts[Len(urlParts)]
        rest == Pop(urlParts)
        versionedPublicId == IF rest = <<>> THEN <<>> ELSE rest[Len(rest)]
    IN  publicIdWithExtension[1]

\* delete, lines 249-256
DeletePublicId(photoUrl) ==
    LET urlParts == photoUrl
        publicIdWithExtension == urlParts[Len(urlParts)]
    IN  publicIdWithExtension[1]

\* ---- validation --------------------------------------------------------
MongodbId(id) == id \in BlogIds
ValidString(s) == s # ""

CreateBlogSchema(b) ==
    ValidString(b.title) /\ ValidString(b.content) /\ b.author \in Authors
    /\ ValidString(b.photo)

UpdateBlogSchema(b) ==
    ValidString(b.title) /\ ValidString(b.content) /\ b.author \in Authors
    /\ MongodbId(b.blogId)

DeleteBlogSchema(b) == MongodbId(b.blogId)

\* ---- helpers -----------------------------------------------------------
NoReq == [op |-> "none", blogId |-> BadId, title |-> "", content |-> "",
          author |-> "", photo |-> NoPhoto]
NoResp == [id |-> BadId, photoPath |-> NoPath]

\* res.status(code).json(...) or next(error): the request is over
Respond(p, code) ==
    /\ pc' = [pc EXCEPT ![p] = "done"]
    /\ outcome' = [outcome EXCEPT ![p] = code]

\* the awaited call resolved (ok) or rejected (~ok)
Call(p, name, ok) ==
    calls' = [calls EXCEPT ![p] = Append(@, [name |-> name, ok |-> ok])]

Goto(p, label) ==
    /\ pc' = [pc EXCEPT ![p] = label]
    /\ UNCHANGED outcome

Count(s, name) == Cardinality({i \in 1..Len(s) : s[i].name = name})
Failed(s, name) == \E i \in 1..Len(s) : s[i].name = name /\ ~s[i].ok
Called(s, name) == Count(s, name) > 0

\* the requests that are being served
Serving == {q \in Procs : pc[q] \notin {"idle", "done"}}

\* the request arrives while those of Serving are suspended at an await
Arrive(p) == during' = [during EXCEPT ![p] = Serving]

\* the asset a photoPath resolves to is in the store
AssetExists(url, store) == \E a \in store : UploadUrl(a) = url

\* ---- initial state -----------------------------------------------------
\* The stores as earlier requests left them: n posts, each created with its
\* own photo and commented k times; no request is being served.
SeedBlog == [title |-> "t0", content |-> "c0", author |-> "u0"]

Stores(n, k) ==
    /\ blogs = [i \in 1..n |->
                  [title |-> SeedBlog.title, content |-> SeedBlog.content,
                   author |-> SeedBlog.author,
                   photoPath |-> UploadUrl(AssetName(i))]]
    /\ comments = {[id |-> (i - 1) * MaxComments + j, blog |-> i] :
                      i \in 1..n, j \in 1..k}
    /\ assets = {AssetName(i) : i \in 1..n}
    /\ nextId = n + 1
    /\ nextAsset = n + 1

NoRequests ==
    /\ pc = [p \in Procs |-> "idle"]
    /\ req = [p \in Procs |-> NoReq]
    /\ blog = [p \in Procs |-> NoPath]
    /\ newPhotoPath = [p \in Procs |-> NoPath]
    /\ outcome = [p \in Procs |-> "none"]
    /\ resp = [p \in Procs |-> NoResp]
    /\ calls = [p \in Procs |-> <<>>]
    /\ deletedCount = [p \in Procs |-> 0]
    /\ during = [p \in Procs |-> {}]

NoStored == [publicId |-> <<>>, url |-> NoPath]

NoDerivation ==
    /\ stored = NoStored
    /\ updateId = <<>>
    /\ deleteId = <<>>

Init ==
    /\ \E n \in 0..MaxBlogs, k \in 0..MaxComments : Stores(n, k)
    /\ NoRequests
    /\ NoDerivation

\* ---- create (lines 26-86) ----------------------------------------------
CreateStart(p) ==
    /\ pc[p] = "idle"
    /\ \E t \in Titles \cup {""}, c \in Contents, a \in Authors, ph \in Photos :
         LET body == [op |-> "create", blogId |-> BadId, title |-> t,
                      content |-> c, author |-> a, photo |-> ph]
         IN  /\ req' = [req EXCEPT ![p] = body]
             /\ IF CreateBlogSchema(body)
                   THEN Goto(p, "c_upload")
                   ELSE Respond(p, "ValidationError")
    /\ Arrive(p)
    /\ UNCHANGED <<blogs, comments, assets, nextId, nextAsset, blog,
                   newPhotoPath, resp, calls, deletedCount>>
    /\ UNCHANGED codecVars

\* catch (error) { return next(error) } of the upload
CreateUploadFailed_Swallowed(p) ==
    /\ Goto(p, "c_save")
    /\ UNCHANGED <<assets, nextAsset, newPhotoPath>>

CreateUploadFailed(p) ==
    /\ Respond(p, "AssetStoreError")
    /\ UNCHANGED <<assets, nextAsset, newPhotoPath>>

\* response = await cloudinary.uploader.upload(photo)
CreateUpload(p) ==
    /\ pc[p] = "c_upload"
    /\ \/ /\ nextAsset <= MaxAssets
          /\ Call(p, "upload", TRUE)
          /\ assets' = assets \cup {AssetName(nextAsset)}
          /\ nextAsset' = nextAsset + 1
          /\ newPhotoPath' = [newPhotoPath EXCEPT
                                ![p] = UploadUrl(AssetName(nextAsset))]
          /\ Goto(p, "c_save")
       \/ /\ Call(p, "upload", FALSE)
          /\ CreateUploadFailed(p)
    /\ UNCHANGED <<blogs, comments, nextId, req, blog, resp, deletedCount,
                   during>>
    /\ UNCHANGED codecVars

\* new Blog({ title, author, content, photoPath: response.url })
NewBlog_NoUrl(p) ==
    [title |-> req[p].title, content |-> req[p].content,
     author |-> req[p].author, photoPath |-> NoPath]

NewBlog(p) ==
    [title |-> req[p].title, content |-> req[p].content,
     author |-> req[p].author, photoPath |-> newPhotoPath[p]]

\* catch (error) { return next(error) } of the save
CreateSaveFailed_Swallowed(p) ==
    /\ Respond(p, "201")
    /\ UNCHANGED <<blogs, nextId, resp>>

CreateSaveFailed(p) ==
    /\ Respond(p, "StoreError")
    /\ UNCHANGED <<blogs, nextId, resp>>

\* await newBlog.save(); res.status(201).json({ blog: new BlogDTO(newBlog) })
CreateSave(p) ==
    /\ pc[p] = "c_save"
    /\ \/ /\ nextId <= MaxBlogs
          /\ Call(p, "save", TRUE)
          /\ blogs' = blogs @@ (nextId :> NewBlog(p))
          /\ resp' = [resp EXCEPT ![p] =
                         [id |-> nextId, photoPath |-> NewBlog(p).photoPath]]
          /\ nextId' = nextId + 1
          /\ Respond(p, "201")
       \/ /\ Call(p, "save", FALSE)
          /\ CreateSaveFailed(p)
    /\ UNCHANGED <<comments, assets, nextAsset, req, blog, newPhotoPath,
                   deletedCount,
                   during>>
    /\ UNCHANGED codecVars

\* ---- update (lines 131-226) --------------------------------------------
UpdateStart(p) ==
    /\ pc[p] = "idle"
    /\ \E id \in BlogIds \cup {BadId}, t \in Titles, c \in Contents,
          a \in Authors, ph \in Photos \cup {NoPhoto} :
         LET body == [op |-> "update", blogId |-> id, title |-> t,
                      content |-> c, author |-> a, photo |-> ph]
         IN  /\ req' = [req EXCEPT ![p] = body]
             /\ IF UpdateBlogSchema(body)
                   THEN Goto(p, "u_find")
                   ELSE Respond(p, "ValidationError")
    /\ Arrive(p)
    /\ UNCHANGED <<blogs, comments, assets, nextId, nextAsset, blog,
                   newPhotoPath, resp, calls, deletedCount>>
    /\ UNCHANGED codecVars

\* if (!blog) return res.status(404)
UpdateNotFound_Continue(p) ==
    /\ Goto(p, IF req[p].photo # NoPhoto THEN "u_upload" ELSE "u_write")
    /\ UNCHANGED <<blog, newPhotoPath>>

UpdateNotFound(p) ==
    /\ Respond(p, "404")
    /\ UNCHANGED <<blog, newPhotoPath>>

\* blog = await Blog.findOne({ _id: blogId }); newPhotoPath = blog.photoPath
UpdateFind(p) ==
    /\ pc[p] = "u_find"
    /\ \/ /\ req[p].blogId \in DOMAIN blogs
          /\ Call(p, "findOne", TRUE)
          /\ LET photoPath == blogs[req[p].blogId].photoPath
             IN  /\ blog' = [blog EXCEPT ![p] = photoPath]
                 /\ newPhotoPath' = [newPhotoPath EXCEPT ![p] = photoPath]
                 /\ IF req[p].photo # NoPhoto
                       THEN IF photoPath # NoPath
                              THEN Goto(p, "u_destroy")
                              ELSE Goto(p, "u_upload")
                       ELSE Goto(p, "u_write")
       \/ /\ req[p].blogId \notin DOMAIN blogs
          /\ Call(p, "findOne", TRUE)
          /\ UpdateNotFound(p)
       \/ /\ Call(p, "findOne", FALSE)
          /\ Respond(p, "StoreError")
          /\ UNCHANGED <<blog, newPhotoPath>>
    /\ UNCHANGED <<blogs, comments, assets, nextId, nextAsset, req, resp,
                   deletedCount,
                   during>>
    /\ UNCHANGED codecVars

\* catch (cloudinaryError) { console.error(...) }: log and continue
UpdateDestroyFailed_Fatal(p) ==
    /\ Respond(p, "AssetStoreError")
    /\ UNCHANGED assets

UpdateDestroyFailed(p) ==
    /\ Goto(p, "u_upload")
    /\ UNCHANGED assets

\* try { await cloudinary.uploader.destroy(publicId) } catch { log }
UpdateDestroy(p) ==
    /\ pc[p] = "u_destroy"
    /\ \/ /\ Call(p, "destroy", TRUE)
          /\ assets' = assets \ {UpdatePublicId(blog[p])}
          /\ Goto(p, "u_upload")
       \/ /\ Call(p, "destroy", FALSE)
          /\ UpdateDestroyFailed(p)
    /\ UNCHANGED <<blogs, comments, nextId, nextAsset, req, blog,
                   newPhotoPath, resp, deletedCount,
                   during>>
    /\ UNCHANGED codecVars

\* catch (uploadError) { return next(uploadError) }
UpdateUploadFailed_Swallowed(p) ==
    /\ Goto(p, "u_write")
    /\ UNCHANGED <<assets, nextAsset, newPhotoPath>>

UpdateUploadFailed(p) ==
    /\ Respond(p, "AssetStoreError")
    /\ UNCHANGED <<assets, nextAsset, newPhotoPath>>

\* response = await cloudinary.uploader.upload(photo)
UpdateUpload(p) ==
    /\ pc[p] = "u_upload"
    /\ \/ /\ nextAsset <= MaxAssets
          /\ Call(p, "upload", TRUE)
          /\ assets' = assets \cup {AssetName(nextAsset)}
          /\ nextAsset' = nextAsset + 1
          /\ newPhotoPath' = [newPhotoPath EXCEPT
                                ![p] = UploadUrl(AssetName(nextAsset))]
          /\ Goto(p, "u_write")
       \/ /\ Call(p, "upload", FALSE)
          /\ UpdateUploadFailed(p)
    /\ UNCHANGED <<blogs, comments, nextId, req, blog, resp, deletedCount,
                   during>>
    /\ UNCHANGED codecVars

\* the update document { title, content, photoPath: newPhotoPath }
UpdateDoc_KeepPhoto(p, doc) ==
    [doc EXCEPT !.title = req[p].title, !.content = req[p].content]

UpdateDoc_WithAuthor(p, doc) ==
    [doc EXCEPT !.title = req[p].title, !.content = req[p].content,
                !.author = req[p].author, !.photoPath = newPhotoPath[p]]

UpdateDoc(p, doc) ==
    [doc EXCEPT !.title = req[p].title, !.content = req[p].content,
                !.photoPath = newPhotoPath[p]]

\* await Blog.updateOne({ _id: blogId }, { title, content, photoPath })
UpdateWrite(p) ==
    /\ pc[p] = "u_write"
    /\ \/ /\ Call(p, "updateOne", TRUE)
          /\ blogs' = IF req[p].blogId \in DOMAIN blogs
                         THEN [blogs EXCEPT ![req[p].blogId] = UpdateDoc(p, @)]
                         ELSE blogs
          /\ Respond(p, "200")
       \/ /\ Call(p, "updateOne", FALSE)
          /\ Respond(p, "StoreError")
          /\ UNCHANGED blogs
    /\ UNCHANGED <<comments, assets, nextId, nextAsset, req, blog,
                   newPhotoPath, resp, deletedCount,
                   during>>
    /\ UNCHANGED codecVars

\* ---- delete (lines 227-282) --------------------------------------------
DeleteStart(p) ==
    /\ pc[p] = "idle"
    /\ \E id \in BlogIds \cup {BadId} :
         LET body == [op |-> "delete", blogId |-> id, title |-> "",
                      content |-> "", author |-> "", photo |-> NoPhoto]
         IN  /\ req' = [req EXCEPT ![p] = body]
             /\ IF DeleteBlogSchema(body)
                   THEN Goto(p, "d_find")
                   ELSE Respond(p, "ValidationError")
    /\ Arrive(p)
    /\ UNCHANGED <<blogs, comments, assets, nextId, nextAsset, blog,
                   newPhotoPath, resp, calls, deletedCount>>
    /\ UNCHANGED codecVars

\* if (!blogToDelete) return res.status(404)
DeleteNotFound_Unchecked(p) ==
    /\ Respond(p, "TypeError")
    /\ UNCHANGED blog

DeleteNotFound(p) ==
    /\ Respond(p, "404")
    /\ UNCHANGED blog

\* blogToDelete = await Blog.findOne({ _id: id }); photoUrl.split("/")
DeleteFind(p) ==
    /\ pc[p] = "d_find"
    /\ \/ /\ req[p].blogId \in DOMAIN blogs
          /\ Call(p, "findOne", TRUE)
          /\ LET photoUrl == blogs[req[p].blogId].photoPath
             IN  /\ blog' = [blog EXCEPT ![p] = photoUrl]
                 /\ IF photoUrl # NoPath
                       THEN Goto(p, "d_destroy")
                       ELSE Respond(p, "TypeError")
       \/ /\ req[p].blogId \notin DOMAIN blogs
          /\ Call(p, "findOne", TRUE)
          /\ DeleteNotFound(p)
       \/ /\ Call(p, "findOne", FALSE)
          /\ Respond(p, "StoreError")
          /\ UNCHANGED blog
    /\ UNCHANGED <<blogs, comments, assets, nextId, nextAsset, req,
                   newPhotoPath, resp, deletedCount,
                   during>>
    /\ UNCHANGED codecVars

\* await cloudinary.uploader.destroy(publicId, callback): the callback only
\* logs; the awaited promise rejects on an error, and the catch of line 276
\* passes the error to next.
DeleteDestroy(p) ==
    /\ pc[p] = "d_destroy"
    /\ \/ /\ Call(p, "destroy", TRUE)
          /\ assets' = assets \ {DeletePublicId(blog[p])}
          /\ Goto(p, "d_deleteOne")
       \/ /\ Call(p, "destroy", FALSE)
          /\ Respond(p, "AssetStoreError")
          /\ UNCHANGED assets
    /\ UNCHANGED <<blogs, comments, nextId, nextAsset, req, blog,
                   newPhotoPath, resp, deletedCount,
                   during>>
    /\ UNCHANGED codecVars

\* await Blog.deleteOne({ _id: id })
DeleteOne(p) ==
    /\ pc[p] = "d_deleteOne"
    /\ \/ /\ Call(p, "deleteOne", TRUE)
          /\ blogs' = [i \in DOMAIN blogs \ {req[p].blogId} |-> blogs[i]]
          /\ Goto(p, "d_deleteMany")
       \/ /\ Call(p, "deleteOne", FALSE)
          /\ Respond(p, "StoreError")
          /\ UNCHANGED blogs
    /\ UNCHANGED <<comments, assets, nextId, nextAsset, req, blog,
                   newPhotoPath, resp, deletedCount,
                   during>>
    /\ UNCHANGED codecVars

\* the filter { blog: id } of deleteMany
CommentsOf_First(id) ==
    LET own == {c \in comments : c.blog = id}
    IN  IF own = {} THEN {}
        ELSE {CHOOSE c \in own : \A d \in own : c.id <= d.id}

CommentsOf_All(id) == comments

CommentsOf(id) == {c \in comments : c.blog = id}

\* catch (error) { return next(error) } of the store calls of delete
DeleteManyFailed_Swallowed(p) ==
    /\ Respond(p, "200")
    /\ UNCHANGED <<comments, deletedCount>>

DeleteManyFailed(p) ==
    /\ Respond(p, "StoreError")
    /\ UNCHANGED <<comments, deletedCount>>

\* await Comment.deleteMany({ blog: id }); res.status(200)
DeleteMany(p) ==
    /\ pc[p] = "d_deleteMany"
    /\ \/ /\ Call(p, "deleteMany", TRUE)
          /\ comments' = comments \ CommentsOf(req[p].blogId)
          /\ deletedCount' = [deletedCount EXCEPT ![p] =
                                Cardinality(CommentsOf(req[p].blogId))]
          /\ Respond(p, "200")
       \/ /\ Call(p, "deleteMany", FALSE)
          /\ DeleteManyFailed(p)
    /\ UNCHANGED <<blogs, assets, nextId, nextAsset, req, blog,
                   newPhotoPath, resp,
                   during>>
    /\ UNCHANGED codecVars

Next ==
    \E p \in Procs :
        \/ CreateStart(p) \/ CreateUpload(p) \/ CreateSave(p)
        \/ UpdateStart(p) \/ UpdateFind(p) \/ UpdateDestroy(p)
        \/ UpdateUpload(p) \/ UpdateWrite(p)
        \/ DeleteStart(p) \/ DeleteFind(p) \/ DeleteDestroy(p)
        \/ DeleteOne(p) \/ DeleteMany(p)

Spec == Init /\ [][Next]_vars

\* ---- the public id derivation alone ------------------------------------
\* Cloudinary stores an asset under a public id (folders and a name that
\* may hold ".") and hands out its url; update and delete each derive a
\* public id from that url.
NameParts == {"a", "b"}
FolderNames == {"f", "g"}
Formats == {"jpg", "png"}

SeqsUpTo(S, n) == UNION {[1..k -> S] : k \in 0..n}

Names == SeqsUpTo(NameParts, MaxNameParts) \ {<<>>}
Folders == SeqsUpTo({<<f>> : f \in FolderNames}, MaxFolders)

CodecInit == Stores(0, 0) /\ NoRequests /\ NoDerivation

\* cloudinary.uploader.upload resolves with the url of the stored asset
CodecUpload ==
    /\ stored = NoStored
    /\ \E folder \in Folders, name \in Names, format \in Formats :
          stored' = [publicId |-> Append(folder, name),
                     url |-> AccessUrl(folder, name, format)]
    /\ UNCHANGED <<updateId, deleteId>>
    /\ UNCHANGED requestVars

CodecUpdateDerive ==
    /\ stored # NoStored
    /\ updateId = <<>>
    /\ updateId' = <<UpdatePublicId(stored.url)>>
    /\ UNCHANGED <<stored, deleteId>>
    /\ UNCHANGED requestVars

CodecDeleteDerive ==
    /\ stored # NoStored
    /\ deleteId = <<>>
    /\ deleteId' = <<DeletePublicId(stored.url)>>
    /\ UNCHANGED <<stored, updateId>>
    /\ UNCHANGED requestVars

CodecNext == CodecUpload \/ CodecUpdateDerive \/ CodecDeleteDerive

SpecCodec == CodecInit /\ [][CodecNext]_vars

\* ---- properties ---------------------------------------------------------
Busy(id) ==
    \E p \in Procs : /\ req[p].op \in {"update", "delete"}
                     /\ req[p].blogId = id
                     /\ pc[p] # "done"

\* C1: whenever no update or delete is in progress on a stored post, the
\* post's photoPath resolves to an asset that is in the asset store.
C1_PhotoReferenceResolves ==
    \A id \in DOMAIN blogs :
        ~Busy(id) => AssetExists(blogs[id].photoPath, assets)

\* C2: an update with a new photo calls destroy on the old asset only after
\* it has uploaded the new asset and written the new url to the record.
C2_RemoveAfterUploadAndWrite ==
    \A p \in Procs :
        req[p].op = "update" =>
            \A i \in 1..Len(calls[p]) :
                calls[p][i].name = "destroy" =>
                    /\ \E j \in 1..(i - 1) : calls[p][j].name = "upload"
                    /\ \E j \in 1..(i - 1) : calls[p][j].name = "updateOne"

\* C3: a delete whose destroy call failed still goes on to delete the record
\* and the comments, and reports what it reports when destroy succeeds
\* (success, or the error of a failing store call).
C3_RemoveFailureNeverBlocksDelete ==
    \A p \in Procs :
        (req[p].op = "delete" /\ pc[p] = "done" /\ Failed(calls[p], "destroy"))
            => /\ Called(calls[p], "deleteOne")
               /\ outcome[p] \in {"200", "StoreError"}
               /\ outcome[p] = "200" =>
                     /\ req[p].blogId \notin DOMAIN blogs
                     /\ CommentsOf(req[p].blogId) = {}

\* C4: the record write of an update without a photo leaves the stored
\* photoPath as it was just before the write, and sets title and content
\* to the supplied values.
C4_NoPhotoKeepsPhotoReference ==
    [][\A p \in Procs :
         (/\ pc[p] = "u_write"
          /\ req[p].photo = NoPhoto
          /\ outcome'[p] = "200"
          /\ req[p].blogId \in DOMAIN blogs)
            => /\ req[p].blogId \in DOMAIN blogs'
               /\ blogs'[req[p].blogId].photoPath
                     = blogs[req[p].blogId].photoPath
               /\ blogs'[req[p].blogId].title = req[p].title
               /\ blogs'[req[p].blogId].content = req[p].content]_vars

\* C5: when an update with a new photo on a record that has a photo reports
\* success, it has called destroy once and upload once, and the record's
\* photoPath is the url its upload returned.
C5_UpdateWithPhotoSucceeds ==
    [][\A p \in Procs :
         (/\ pc[p] = "u_write"
          /\ req[p].photo # NoPhoto
          /\ blog[p] # NoPath
          /\ outcome'[p] = "200")
            => /\ Count(calls'[p], "destroy") = 1
               /\ Count(calls'[p], "upload") = 1
               /\ req[p].blogId \in DOMAIN blogs'
               /\ blogs'[req[p].blogId].photoPath = newPhotoPath[p]]_vars

\* C6: when a delete on an existing id reports success, the record with
\* that id is not in the blog collection and no comment references it.
C6_DeleteRemovesRecordAndComments ==
    [][\A p \in Procs :
         (req[p].op = "delete" /\ outcome[p] # "200" /\ outcome'[p] = "200")
            => /\ req[p].blogId \notin DOMAIN blogs'
               /\ \A c \in comments' : c.blog # req[p].blogId]_vars

C6_Witness ==
    \E p \in Procs : /\ req[p].op = "delete"
                     /\ outcome[p] = "200"
                     /\ deletedCount[p] = MaxComments
                     /\ req[p].blogId \notin DOMAIN blogs

\* C7: a delete whose findOne finds no record answers 404, leaves blogs,
\* comments and assets as they are and issues no other call; a second
\* delete on that id does the same.
C7_DeleteAbsentIsNotFound ==
    [][\A p \in Procs :
         (/\ pc[p] = "d_find"
          /\ req[p].blogId \notin DOMAIN blogs
          /\ calls'[p] = <<[name |-> "findOne", ok |-> TRUE]>>)
            => /\ pc'[p] = "done"
               /\ outcome'[p] = "404"
               /\ blogs' = blogs
               /\ comments' = comments
               /\ assets' = assets]_vars

C7_Witness ==
    \E p, q \in Procs :
        /\ p # q
        /\ req[p].op = "delete" /\ req[q].op = "delete"
        /\ req[p].blogId = req[q].blogId
        /\ req[p].blogId \notin DOMAIN blogs
        /\ outcome[p] = "404" /\ outcome[q] = "404"
        /\ calls[p] = <<[name |-> "findOne", ok |-> TRUE]>>
        /\ calls[q] = calls[p]

\* C8: when the upload of a create fails, the create ends with that error
\* and the blog collection stays as it was: no record is inserted.
C8_CreateUploadFailureInsertsNothing ==
    [][\A p \in Procs :
         (/\ req[p].op = "create"
          /\ calls'[p] # calls[p]
          /\ Failed(calls'[p], "upload"))
            => /\ pc'[p] = "done"
               /\ outcome'[p] = "AssetStoreError"
               /\ ~Called(calls'[p], "save")
               /\ blogs' = blogs]_vars

C8_Witness ==
    \E p \in Procs : /\ req[p].op = "create"
                     /\ pc[p] = "done"
                     /\ Failed(calls[p], "upload")
                     /\ outcome[p] = "AssetStoreError"

\* C9: when a create reports success, it responds with a record that was
\* not in the collection before and is now, whose photoPath is the url its
\* own upload returned, and the asset of that url is in the asset store.
C9_CreateReturnsRecordWithExistingAsset ==
    [][\A p \in Procs :
         (pc[p] = "c_save" /\ outcome'[p] = "201")
            => /\ resp'[p].id \notin DOMAIN blogs
               /\ resp'[p].id \in DOMAIN blogs'
               /\ blogs'[resp'[p].id].photoPath = newPhotoPath[p]
               /\ resp'[p].photoPath = newPhotoPath[p]
               /\ Count(calls'[p], "upload") = 1
               /\ AssetExists(newPhotoPath[p], assets')]_vars

C9_Witness ==
    \E p \in Procs : /\ req[p].op = "create"
                     /\ outcome[p] = "201"
                     /\ resp[p].id \in DOMAIN blogs
                     /\ blogs[resp[p].id].photoPath = resp[p].photoPath
                     /\ AssetExists(resp[p].photoPath, assets)
                     /\ \E q \in Procs : q # p /\ pc[q] = "done"
                                         /\ req[q].op \in {"update", "delete"}

\* C10: an update whose findOne finds no record answers 404 and has no
\* side effect, with or without a new photo: blogs, comments and assets
\* stay as they are and no call other than findOne is issued.
C10_UpdateAbsentIsNotFound ==
    [][\A p \in Procs :
         (/\ pc[p] = "u_find"
          /\ req[p].blogId \notin DOMAIN blogs
          /\ calls'[p] = <<[name |-> "findOne", ok |-> TRUE]>>)
            => /\ pc'[p] = "done"
               /\ outcome'[p] = "404"
               /\ blogs' = blogs
               /\ comments' = comments
               /\ assets' = assets]_vars

C10_Witness ==
    \E p, q \in Procs :
        /\ req[p].op = "update" /\ req[q].op = "update"
        /\ req[p].photo = NoPhoto /\ req[q].photo # NoPhoto
        /\ req[p].blogId \notin DOMAIN blogs
        /\ req[q].blogId \notin DOMAIN blogs
        /\ outcome[p] = "404" /\ outcome[q] = "404"
        /\ calls[p] = <<[name |-> "findOne", ok |-> TRUE]>>
        /\ calls[q] = calls[p]

\* C11: when the upload of an update fails, the update ends with that
\* error without calling updateOne: the blog collection, and so the record's
\* title, content and photoPath, stay as they were.
C11_UpdateUploadFailureAborts ==
    [][\A p \in Procs :
         (/\ req[p].op = "update"
          /\ calls'[p] # calls[p]
          /\ Failed(calls'[p], "upload"))
            => /\ pc'[p] = "done"
               /\ outcome'[p] = "AssetStoreError"
               /\ ~Called(calls'[p], "updateOne")
               /\ blogs' = blogs]_vars

C11_Witness ==
    \E p \in Procs :
        /\ req[p].op = "update"
        /\ pc[p] = "done"
        /\ Failed(calls[p], "upload")
        /\ outcome[p] = "AssetStoreError"
        /\ req[p].blogId \in DOMAIN blogs
        /\ blogs[req[p].blogId].title = SeedBlog.title
        /\ blogs[req[p].blogId].content = SeedBlog.content
        /\ blogs[req[p].blogId].photoPath = blog[p]

\* C12: an update whose record was deleted between its findOne and its
\* updateOne does not report success at updateOne but a not-found error
\* (or the error of a failing store call), and the record is not re-created.
C12_UpdateOfDeletedRecordFails ==
    [][\A p \in Procs :
         (/\ pc[p] = "u_write"
          /\ calls'[p] # calls[p]
          /\ req[p].blogId \notin DOMAIN blogs)
            => /\ outcome'[p] \in {"404", "StoreError"}
               /\ req[p].blogId \notin DOMAIN blogs']_vars

\* two updates with a new photo on the same id, served at the same time,
\* that have both answered 200
BothUpdated(p, q) ==
    /\ p # q
    /\ req[p].op = "update" /\ req[q].op = "update"
    /\ req[p].blogId = req[q].blogId
    /\ req[p].photo # NoPhoto /\ req[q].photo # NoPhoto
    /\ outcome[p] = "200" /\ outcome[q] = "200"
    /\ (q \in during[p] \/ p \in during[q])

\* the record holds the url that w uploaded and its asset is stored; the
\* url that o uploaded is not referenced
SurvivorIs(w, o) ==
    /\ req[w].blogId \in DOMAIN blogs
    /\ blogs[req[w].blogId].photoPath = newPhotoPath[w]
    /\ AssetExists(newPhotoPath[w], assets)
    /\ newPhotoPath[o] # newPhotoPath[w]

\* C13 as stated: after two concurrent updates with a new photo on one id
\* that both succeeded, the record holds the url of one of the two new
\* assets, that asset is stored, and the other new asset is still stored,
\* unreferenced.
C13_OtherAssetRemains ==
    \A p, q \in Procs :
        BothUpdated(p, q) =>
            \E w \in {p, q} : \E o \in {p, q} \ {w} :
                /\ SurvivorIs(w, o)
                /\ AssetExists(newPhotoPath[o], assets)

\* C13 amended: ... the other new asset is unreferenced, and it is still
\* stored unless the update that wrote last had loaded the record after the
\* other one's write and removed that asset as its old photo.
C13_OtherAssetRemainsUnlessOld ==
    \A p, q \in Procs :
        BothUpdated(p, q) =>
            \E w \in {p, q} : \E o \in {p, q} \ {w} :
                /\ SurvivorIs(w, o)
                /\ \/ AssetExists(newPhotoPath[o], assets)
                   \/ /\ blog[w] = newPhotoPath[o]
                      /\ \E i \in 1..Len(calls[w]) :
                            calls[w][i] = [name |-> "destroy", ok |-> TRUE]

C13_Witness ==
    \E p, q \in Procs :
        /\ BothUpdated(p, q)
        /\ blog[p] = blog[q]
        /\ SurvivorIs(p, q)
        /\ AssetExists(newPhotoPath[q], assets)

\* C14: whenever no delete is in progress on the post id a stored comment
\* references, that post is in the blog collection; also after a delete
\* that ended in a StoreError.
C14_NoCommentOutlivesItsPost ==
    \A c \in comments :
        (\A p \in Procs : ~(/\ req[p].op = "delete"
                            /\ req[p].blogId = c.blog
                            /\ pc[p] # "done"))
            => c.blog \in DOMAIN blogs

Succeeded(s, name) == \E i \in 1..Len(s) : s[i].name = name /\ s[i].ok

\* C15: a delete answers 200 only when both deleteOne and deleteMany have
\* succeeded; when one of the two fails, it ends with the error and never
\* with a 200.
C15_DeleteSuccessNeedsBothStoreCalls ==
    \A p \in Procs :
        req[p].op = "delete" =>
            /\ outcome[p] = "200" =>
                  /\ Succeeded(calls[p], "deleteOne")
                  /\ Succeeded(calls[p], "deleteMany")
            /\ (Failed(calls[p], "deleteOne") \/ Failed(calls[p], "deleteMany"))
                  => pc[p] = "done" /\ outcome[p] = "StoreError"

C15_Witness ==
    \E p, q \in Procs :
        /\ req[p].op = "delete" /\ req[q].op = "delete"
        /\ Failed(calls[p], "deleteMany") /\ outcome[p] = "StoreError"
        /\ Failed(calls[q], "deleteOne") /\ outcome[q] = "StoreError"

\* C16: an update whose destroy of the old asset failed goes on as after a
\* successful destroy: it uploads the new photo, and when upload and
\* updateOne succeed it answers 200 and the record carries the supplied
\* title and content and the url of the new asset.
C16_UpdateSwallowsRemoveFailure ==
    [][\A p \in Procs :
         (/\ req[p].op = "update"
          /\ calls'[p] # calls[p]
          /\ Failed(calls'[p], "destroy"))
            => /\ pc[p] = "u_destroy" =>
                     /\ pc'[p] = "u_upload"
                     /\ outcome'[p] = "none"
                     /\ blogs' = blogs
                     /\ newPhotoPath' = newPhotoPath
               /\ pc[p] = "u_upload" =>
                     /\ Called(calls'[p], "upload")
                     /\ Succeeded(calls'[p], "upload") => pc'[p] = "u_write"
               /\ (pc[p] = "u_write" /\ Succeeded(calls'[p], "updateOne")) =>
                     /\ outcome'[p] = "200"
                     /\ req[p].blogId \in DOMAIN blogs =>
                           /\ blogs'[req[p].blogId].title = req[p].title
                           /\ blogs'[req[p].blogId].content = req[p].content
                           /\ blogs'[req[p].blogId].photoPath = newPhotoPath[p]
                           /\ AssetExists(newPhotoPath[p], assets')
               /\ pc[p] \in {"u_destroy", "u_upload", "u_write"}]_vars

C16_Witness ==
    \E p \in Procs :
        /\ req[p].op = "update"
        /\ Failed(calls[p], "destroy")
        /\ outcome[p] = "200"
        /\ req[p].blogId \in DOMAIN blogs
        /\ blogs[req[p].blogId].photoPath = newPhotoPath[p]
        /\ newPhotoPath[p] # blog[p]
        /\ AssetExists(blog[p], assets)

\* C17: a create whose save failed after its upload succeeded ends with the
\* store error; no record carries the url of its upload, the uploaded asset
\* stays in the asset store, and the create has called no destroy.
C17_CreateSaveFailureOrphansAsset ==
    /\ [](\A p \in Procs :
            (req[p].op = "create" /\ Failed(calls[p], "save")) =>
                /\ pc[p] = "done"
                /\ outcome[p] = "StoreError"
                /\ resp[p] = NoResp
                /\ calls[p] = <<[name |-> "upload", ok |-> TRUE],
                                [name |-> "save", ok |-> FALSE]>>
                /\ AssetExists(newPhotoPath[p], assets)
                /\ \A id \in DOMAIN blogs :
                      blogs[id].photoPath # newPhotoPath[p])
    /\ [][\A p \in Procs :
            (req[p].op = "create" /\ Failed(calls'[p], "save")
             /\ calls'[p] # calls[p])
                => blogs' = blogs /\ assets' = assets]_vars

C17_Witness ==
    \E p \in Procs :
        /\ req[p].op = "create"
        /\ Failed(calls[p], "save")
        /\ outcome[p] = "StoreError"
        /\ nextId <= MaxBlogs
        /\ AssetExists(newPhotoPath[p], assets)
        /\ \E q \in Procs : q # p /\ pc[q] = "done"
                            /\ Succeeded(calls[q], "destroy")

\* an update or delete
OnId(p) == req[p].op \in {"update", "delete"}

\* what a finished update or delete leaves of its own post, as a function
\* of its own request and of the results of its own calls
OwnResult(p) ==
    LET id == req[p].blogId
        last == calls[p][Len(calls[p])]
    IN  /\ outcome[p] = "404" <=> calls[p] = <<[name |-> "findOne", ok |-> TRUE]>>
        /\ outcome[p] = "200" <=> (last.ok /\ last.name \in {"updateOne", "deleteMany"})
        /\ outcome[p] \in {"StoreError", "AssetStoreError"} <=> ~last.ok
        /\ (req[p].op = "update" /\ outcome[p] = "200") =>
              /\ id \in DOMAIN blogs
              /\ blogs[id].title = req[p].title
              /\ blogs[id].content = req[p].content
              /\ blogs[id].photoPath = newPhotoPath[p]
              /\ AssetExists(newPhotoPath[p], assets)
        /\ (req[p].op = "update" /\ calls[p][1].ok) =>
              (outcome[p] # "404" <=> id \in DOMAIN blogs)
        /\ (req[p].op = "delete" /\ Succeeded(calls[p], "deleteOne")) =>
              id \notin DOMAIN blogs
        /\ (req[p].op = "delete" /\ outcome[p] = "200") => CommentsOf(id) = {}
        /\ (req[p].op = "delete" /\ calls[p][1].ok
               /\ ~Succeeded(calls[p], "deleteOne")) =>
              (outcome[p] # "404" <=> id \in DOMAIN blogs)

\* C18: a step of an update or delete on id X leaves the record, the
\* comments and the referenced asset of every other id as they are; and
\* when two such requests on different ids have finished, what each left
\* of its own post and what it answered follow from its own request and
\* the results of its own calls, whatever the interleaving was.
C18_DifferentIdsAreIndependent ==
    /\ [][\A p \in Procs :
            (OnId(p) /\ calls'[p] # calls[p]) =>
                \A y \in BlogIds \ {req[p].blogId} :
                    /\ y \in DOMAIN blogs <=> y \in DOMAIN blogs'
                    /\ y \in DOMAIN blogs =>
                          /\ blogs'[y] = blogs[y]
                          /\ AssetExists(blogs[y].photoPath, assets)
                                <=> AssetExists(blogs[y].photoPath, assets')
                    /\ {c \in comments' : c.blog = y} = CommentsOf(y)]_vars
    /\ [](\A p, q \in Procs :
            (/\ OnId(p) /\ OnId(q)
             /\ req[p].blogId # req[q].blogId
             /\ calls[p] # <<>> /\ calls[q] # <<>>
             /\ pc[p] = "done" /\ pc[q] = "done")
                => OwnResult(p) /\ OwnResult(q))

C18_Witness ==
    \E p, q \in Procs :
        /\ req[p].op = "delete" /\ req[q].op = "update"
        /\ req[p].blogId # req[q].blogId
        /\ q \in during[p]
        /\ outcome[p] = "200" /\ outcome[q] = "200"
        /\ deletedCount[p] = MaxComments
        /\ req[q].photo # NoPhoto
        /\ Cardinality(CommentsOf(req[q].blogId)) = MaxComments
        /\ OwnResult(q)

\* C19: no step of an update adds or removes a record or changes the author
\* of one, whatever author the request carries, and it leaves the records
\* of the other ids as they are: only title, content and photoPath of the
\* target record can change.
C19_UpdateKeepsIdAndAuthor ==
    [][\A p \in Procs :
         (req[p].op = "update" /\ calls'[p] # calls[p]) =>
             /\ DOMAIN blogs' = DOMAIN blogs
             /\ \A id \in DOMAIN blogs :
                   /\ blogs'[id].author = blogs[id].author
                   /\ id # req[p].blogId => blogs'[id] = blogs[id]]_vars

C19_Witness ==
    \E p \in Procs :
        /\ req[p].op = "update"
        /\ outcome[p] = "200"
        /\ req[p].blogId \in DOMAIN blogs
        /\ blogs[req[p].blogId].title = req[p].title
        /\ blogs[req[p].blogId].content = req[p].content
        /\ blogs[req[p].blogId].author # req[p].author
        /\ blogs[req[p].blogId].author = SeedBlog.author

\* a segment without its file extension: without its last "."-part
StripExtension(segment) ==
    IF Len(segment) > 1 THEN Pop(segment) ELSE segment

LastSegment(url) == url[Len(url)]

====
